---- MODULE Spec2Model ----
(***************************************************************************)
(* A model of torch/csrc/jit/passes/onnx/function_substitution.cpp: the    *)
(* ONNX function-call substitution pass.  The IR (graphs, blocks, nodes,   *)
(* values, scopes) is state; the recursion of functionCallSubstitution is  *)
(* an explicit stack of activations; every branch of its switch is one     *)
(* action.                                                                 *)
(***************************************************************************)
EXTENDS Integers, Sequences, FiniteSets, TLC

VARIABLES
  nodes,          \* node id -> node record (every node alive in some graph)
  graphs,         \* graph id -> [param, ret, body]
  current_scope,  \* graph id -> the graph's current scope (a path of labels)
  stack,          \* activations of functionCallSubstitution, innermost last
  pc,             \* "start" | "run" | "throwing" | "done" | "aborted"
  top_guard,      \* the scope saved by top_level_scope_guard
  nextId,         \* the next fresh node id
  hist            \* history: the last step taken and the state it started in

vars == <<nodes, graphs, current_scope, stack, pc, top_guard, nextId, hist>>

(***************************************************************************)
(* Bounds of the model.                                                    *)
(***************************************************************************)
\* the largest output arity of a function-call node
MaxOut == 2
\* the most producers of a chain given to the variable resolver on its own
MaxChain == 3
\* the most atoms of a class name given to the tidying on its own
MaxAtoms == 4
\* the deepest nesting of ModuleList containers above a receiver
MaxDepth == 2

(***************************************************************************)
(* Strings.                                                                *)
(***************************************************************************)
\* std::string::find(sub) != std::string::npos
Contains(s, sub) ==
  \E i \in 1..(Len(s) - Len(sub) + 1) : SubSeq(s, i, i + Len(sub) - 1) = sub

RECURSIVE JoinDots(_)
\* c10::QualifiedName::qualifiedName(): the atoms joined by "."
JoinDots(atoms) ==
  IF atoms = <<>> THEN ""
  ELSE IF Len(atoms) = 1 THEN atoms[1]
  ELSE atoms[1] \o "." \o JoinDots(Tail(atoms))

(***************************************************************************)
(* Types, classes and functions of the programs the pass is run on.        *)
(***************************************************************************)
TensorT == [tag |-> "Tensor", id |-> <<>>]
ClassT(c) == [tag |-> "Class", id |-> <<c>>]
InterfaceT == [tag |-> "Interface", id |-> <<"I">>]
FunctionT(f) == [tag |-> "Function", id |-> f]

\* ClassType::name(): an optional qualified name, <<>> (absent) or <<atoms>>
ClassName(c) ==
  CASE c = "Top" -> << <<"__torch__", "Top">> >>
    [] c = "Net" -> << <<"__torch__", "pkg", "___torch_mangle_0", "Net">> >>
    [] c = "A" -> << <<"__torch__", "pkg", "A">> >>
    [] c = "B" -> << <<"__torch__", "pkg", "___torch_mangle_3", "B">> >>
    [] c = "Op" -> << <<"__torch__", "ext", "Op">> >>
    [] c = "ML" -> << <<"__torch__", "torch", "nn", "modules", "container", "ModuleList">> >>
    [] OTHER -> <<>>

\* ClassType::getMethod(name) followed by tryToGraphFunction: the graph of
\* the method's body, <<graph id>>, or <<>> for a method without one
MethodGraph(c, name) ==
  CASE c = "A" /\ name = "forward" -> << <<"A">> >>
    [] c = "B" /\ name = "forward" -> << <<"B">> >>
    [] OTHER -> <<>>

\* Function::qualname().qualifiedName() of the function a constant carries
FunctionQualName(f) ==
  CASE f[1] = "interpolate" -> "__torch__.torch.nn.functional.interpolate"
    [] f[1] = "relu" -> "__torch__.torch.nn.functional.relu"
    [] f[1] = "my_interpolate" -> "__torch__.pkg.my_interpolate"
    [] OTHER -> "__torch__.unknown"

\* toGraphFunction(*fun_type->function()).graph(): the function id is the
\* graph id
FunctionGraph(f) == f

(***************************************************************************)
(* Nodes.  A value is <<node id, output index>>; a block is a sequence of  *)
(* node ids; name is <<>> (no attr::name) or <<the name>>.                 *)
(***************************************************************************)
N(kind, inputs, otypes, scope, name, blocks) ==
  [kind |-> kind, inputs |-> inputs, otypes |-> otypes, scope |-> scope,
   name |-> name, blocks |-> blocks]

NoNodes == [x \in {} |-> x]

Tensors(k) == [i \in 1..k |-> TensorT]

\* a call's outputs as values
Outs(id, k) == [i \in 1..k |-> <<id, i>>]

(***************************************************************************)
(* The statements the analysed programs are made of.  Stmt(s, b, sv, t)    *)
(* is statement s built on node ids b+1.., with receiver object sv and     *)
(* tensor argument t: its nodes, its block and the values it produces.     *)
(***************************************************************************)
GetAttr(recv, name, type) ==
  N("prim::GetAttr", <<recv>>, <<type>>, <<>>, <<name>>, <<>>)

CallMethod(recv, t) ==
  N("prim::CallMethod", <<recv, t>>, <<TensorT>>, <<>>, <<"forward">>, <<>>)

CallFunction(callee, t, k) ==
  N("prim::CallFunction", <<callee, t>>, Tensors(k), <<"site">>, <<>>, <<>>)

FunctionConstant(f) ==
  N("prim::Constant", <<>>, <<FunctionT(f)>>, <<>>, <<>>, <<>>)

Relu(t) == N("aten::relu", <<t>>, <<TensorT>>, <<>>, <<>>, <<>>)

\* a method call on the attribute v (of class c) of the object sv
StmtMeth(c, v, b, sv, t) ==
  [nodes |-> (b + 1 :> GetAttr(sv, v, ClassT(c))) @@
             (b + 2 :> CallMethod(<<b + 1, 1>>, t)),
   body |-> <<b + 1, b + 2>>,
   outs |-> <<<<b + 2, 1>>>>]

\* a method call on element "3" of d nested ModuleList containers
StmtCont(d, b, sv, t) ==
  [nodes |->
     [i \in (b + 1)..(b + d) |->
        GetAttr(IF i = b + 1 THEN sv ELSE <<i - 1, 1>>,
                IF i = b + 1 THEN "layers" ELSE "0", ClassT("ML"))] @@
     (b + d + 1 :> GetAttr(<<b + d, 1>>, "3", ClassT("B"))) @@
     (b + d + 2 :> CallMethod(<<b + d + 1, 1>>, t)),
   body |-> [i \in 1..(d + 2) |-> b + i],
   outs |-> <<<<b + d + 2, 1>>>>]

Stmt(s, b, sv, t) ==
  CASE s.s = "op" ->
         [nodes |-> (b + 1 :> Relu(t)), body |-> <<b + 1>>,
          outs |-> <<<<b + 1, 1>>>>]
    [] s.s = "if" ->
         \* a structured node with two blocks; the second holds a call
         [nodes |->
            (b + 1 :> N("prim::If", <<t>>, <<>>, <<"stale">>, <<>>,
                        << <<b + 2>>, <<b + 3, b + 4, b + 5>> >>)) @@
            (b + 2 :> Relu(t)) @@
            (b + 3 :> FunctionConstant(<<"interpolate", 1>>)) @@
            (b + 4 :> CallFunction(<<b + 3, 1>>, t, 1)) @@
            (b + 5 :> Relu(<<b + 4, 1>>)),
          body |-> <<b + 1>>, outs |-> <<t>>]
    [] s.s = "ifm" ->
         [nodes |->
            (b + 1 :> N("prim::If", <<t>>, <<>>, <<"stale">>, <<>>,
                        << <<b + 2, b + 3>>, <<b + 4>> >>)) @@
            (b + 2 :> GetAttr(sv, "y", ClassT("B"))) @@
            (b + 3 :> CallMethod(<<b + 2, 1>>, t)) @@
            (b + 4 :> Relu(t)),
          body |-> <<b + 1>>, outs |-> <<t>>]
    [] s.s = "interp" ->
         [nodes |-> (b + 1 :> FunctionConstant(<<"interpolate", s.k>>)) @@
                    (b + 2 :> CallFunction(<<b + 1, 1>>, t, s.k)),
          body |-> <<b + 1, b + 2>>, outs |-> Outs(b + 2, s.k)]
    [] s.s = "interp2" ->
         \* one function constant feeding two call sites
         [nodes |-> (b + 1 :> FunctionConstant(<<"interpolate", 1>>)) @@
                    (b + 2 :> CallFunction(<<b + 1, 1>>, t, 1)) @@
                    (b + 3 :> CallFunction(<<b + 1, 1>>, <<b + 2, 1>>, 1)),
          body |-> <<b + 1, b + 2, b + 3>>, outs |-> <<<<b + 3, 1>>>>]
    [] s.s = "fn" ->
         [nodes |-> (b + 1 :> FunctionConstant(<<s.v, s.k>>)) @@
                    (b + 2 :> CallFunction(<<b + 1, 1>>, t, s.k)),
          body |-> <<b + 1, b + 2>>, outs |-> Outs(b + 2, s.k)]
    [] s.s = "badfn" ->
         \* malformed: input 0 is not a function constant
         [nodes |-> (b + 1 :> CallFunction(t, t, 1)), body |-> <<b + 1>>,
          outs |-> <<<<b + 1, 1>>>>]
    [] s.s = "methA" -> StmtMeth("A", s.v, b, sv, t)
    [] s.s = "methB" -> StmtMeth("B", s.v, b, sv, t)
    [] s.s = "opaque" -> StmtMeth("Op", "op", b, sv, t)
    [] s.s = "iface" ->
         [nodes |-> (b + 1 :> GetAttr(sv, "i", InterfaceT)) @@
                    (b + 2 :> CallMethod(<<b + 1, 1>>, t)),
          body |-> <<b + 1, b + 2>>, outs |-> <<<<b + 2, 1>>>>]
    [] s.s = "anon" ->
         \* the receiver's producer has no attr::name
         [nodes |-> (b + 1 :> N("prim::CreateObject", <<>>, <<ClassT("B")>>,
                                <<>>, <<>>, <<>>)) @@
                    (b + 2 :> CallMethod(<<b + 1, 1>>, t)),
          body |-> <<b + 1, b + 2>>, outs |-> <<<<b + 2, 1>>>>]
    [] s.s = "cont" -> StmtCont(s.k, b, sv, t)
    [] s.s = "contbreak" ->
         \* a non-container object between the container and the element
         [nodes |-> (b + 1 :> GetAttr(sv, "layers", ClassT("ML"))) @@
                    (b + 2 :> GetAttr(<<b + 1, 1>>, "mid", ClassT("A"))) @@
                    (b + 3 :> GetAttr(<<b + 2, 1>>, "3", ClassT("B"))) @@
                    (b + 4 :> CallMethod(<<b + 3, 1>>, t)),
          body |-> <<b + 1, b + 2, b + 3, b + 4>>,
          outs |-> <<<<b + 4, 1>>>>]
    [] s.s = "controot" ->
         \* a named container producer without inputs
         [nodes |-> (b + 1 :> N("prim::CreateObject", <<>>, <<ClassT("ML")>>,
                                <<>>, <<"layers">>, <<>>)) @@
                    (b + 2 :> GetAttr(<<b + 1, 1>>, "3", ClassT("B"))) @@
                    (b + 3 :> CallMethod(<<b + 2, 1>>, t)),
          body |-> <<b + 1, b + 2, b + 3>>, outs |-> <<<<b + 3, 1>>>>]
    [] s.s = "contanon" ->
         \* a container producer without attr::name
         [nodes |-> (b + 1 :> N("prim::CreateObject", <<>>, <<ClassT("ML")>>,
                                <<>>, <<>>, <<>>)) @@
                    (b + 2 :> GetAttr(<<b + 1, 1>>, "3", ClassT("B"))) @@
                    (b + 3 :> CallMethod(<<b + 2, 1>>, t)),
          body |-> <<b + 1, b + 2, b + 3>>, outs |-> <<<<b + 3, 1>>>>]
    [] s.s = "contparam" ->
         \* the container is the third graph input (node 1 is the param node)
         [nodes |-> (b + 1 :> GetAttr(<<1, 3>>, "3", ClassT("B"))) @@
                    (b + 2 :> CallMethod(<<b + 1, 1>>, t)),
          body |-> <<b + 1, b + 2>>, outs |-> <<<<b + 2, 1>>>>]

RECURSIVE BuildBody(_, _, _, _)
\* a block of statements, each fed the first value of the one before
BuildBody(stmts, b, sv, t) ==
  IF stmts = <<>> THEN [nodes |-> NoNodes, body |-> <<>>, outs |-> <<t>>]
  ELSE LET h == Stmt(Head(stmts), b, sv, t)
           r == BuildBody(Tail(stmts), b + 10, sv, h.outs[1])
       IN [nodes |-> h.nodes @@ r.nodes, body |-> h.body \o r.body,
           outs |-> IF Tail(stmts) = <<>> THEN h.outs ELSE r.outs]

\* a graph: param node b+1 (its outputs are the graph inputs), return node
\* b+2 (its inputs are the graph outputs), statements from b+10
BuildGraph(b, ptypes, pre, stmts, sv, t, allOuts) ==
  LET r == BuildBody(stmts, b + 10, sv, t)
  IN [nodes |-> (b + 1 :> N("prim::Param", <<>>, ptypes, <<>>, <<>>, <<>>)) @@
                (b + 2 :> N("prim::Return",
                            IF allOuts THEN r.outs ELSE <<r.outs[1]>>,
                            <<>>, <<>>, <<>>, <<>>)) @@
                pre @@ r.nodes,
      graph |-> [param |-> b + 1, ret |-> b + 2,
                 body |-> [i \in 1..Cardinality(DOMAIN pre) |-> b + 2 + i]
                          \o r.body]]

\* the body of a function: k chained nodes annotated scope, all returned
FunctionBody(b, k, scope) ==
  [nodes |-> (b + 1 :> N("prim::Param", <<>>, <<TensorT>>, <<>>, <<>>, <<>>)) @@
             (b + 2 :> N("prim::Return", [i \in 1..k |-> <<b + 2 + i, 1>>],
                         <<>>, <<>>, <<>>, <<>>)) @@
             [i \in (b + 3)..(b + 2 + k) |->
                N("aten::relu", <<IF i = b + 3 THEN <<b + 1, 1>> ELSE <<i - 1, 1>>>>,
                  <<TensorT>>, scope, <<>>, <<>>)],
   graph |-> [param |-> b + 1, ret |-> b + 2,
              body |-> [i \in 1..k |-> b + 2 + i]]]

S0(s) == [s |-> s, k |-> 0, v |-> ""]
SK(s, k) == [s |-> s, k |-> k, v |-> ""]
SV(s, v) == [s |-> s, k |-> 0, v |-> v]

\* statements that need no receiver object
PlainMenu ==
  {S0("op"), S0("if"), S0("interp2"), S0("badfn"),
   [s |-> "fn", k |-> 1, v |-> "my_interpolate"]} \cup
  {SK("interp", k) : k \in 1..MaxOut} \cup
  {[s |-> "fn", k |-> k, v |-> "relu"] : k \in 1..MaxOut}

\* statements on attributes of the receiver object
ObjectMenu ==
  {S0("ifm"), SV("methA", "x"), SV("methA", "z"), SV("methB", "y"),
   S0("opaque"), S0("iface"), S0("anon"), S0("contbreak"), S0("controot"),
   S0("contanon")} \cup
  {SK("cont", d) : d \in 1..MaxDepth}

Bodies(menu) == {<<s>> : s \in menu} \cup {<<s1, s2>> : s1 \in menu, s2 \in menu}

\* the body of the target graph, by the type of its first input
MainBodies(first) ==
  IF first = "Top"
  THEN Bodies(PlainMenu \cup ObjectMenu \cup {S0("contparam")})
  ELSE Bodies(PlainMenu)

\* the body of A.forward
ABodies ==
  {<<S0("op")>>, <<SV("methB", "y")>>, <<SV("methB", "y"), S0("op")>>,
   <<S0("op"), SV("methB", "y")>>, <<SK("interp", 1)>>,
   <<[s |-> "fn", k |-> 1, v |-> "relu"]>>, <<S0("badfn")>>,
   <<S0("contanon")>>, <<S0("opaque")>>, <<S0("if")>>, <<SK("cont", 1)>>}

CallsA(body) == \E i \in 1..Len(body) : body[i].s = "methA"

\* the inputs of the target graph, by the type of its first input
MainInputs(first) ==
  CASE first = "Top" -> <<ClassT("Top"), TensorT, ClassT("ML")>>
    [] first = "Net" -> <<ClassT("Net"), TensorT>>
    [] first = "Tensor" -> <<TensorT>>
    [] first = "none" -> <<>>

\* with no graph input the tensor argument comes from a constant, node 3
MainPre(first) ==
  IF first = "none"
  THEN (3 :> N("prim::Constant", <<>>, <<TensorT>>, <<>>, <<>>, <<>>))
  ELSE NoNodes

MainTensor(first) ==
  CASE first = "Top" -> <<1, 2>>
    [] first = "Net" -> <<1, 2>>
    [] first = "Tensor" -> <<1, 1>>
    [] first = "none" -> <<3, 1>>

Program(first, main, abody) ==
  LET m == BuildGraph(0, MainInputs(first), MainPre(first), main, <<1, 1>>,
                      MainTensor(first), TRUE)
      a == BuildGraph(100, <<ClassT("A"), TensorT>>, NoNodes, abody,
                      <<101, 1>>, <<101, 2>>, FALSE)
      b == BuildGraph(200, <<ClassT("B"), TensorT>>, NoNodes, <<S0("op")>>,
                      <<201, 1>>, <<201, 2>>, FALSE)
      f == [k \in 1..MaxOut |-> FunctionBody(300 + 20 * k, k, <<>>)]
      g == FunctionBody(500, 1, <<"stale">>)
      fnodes == [id \in UNION {DOMAIN f[k].nodes : k \in 1..MaxOut} |->
                   LET k == CHOOSE j \in 1..MaxOut : id \in DOMAIN f[j].nodes
                   IN f[k].nodes[id]]
  IN [nodes |-> m.nodes @@ a.nodes @@ b.nodes @@ fnodes @@ g.nodes,
      graphs |-> (<<"main">> :> m.graph) @@ (<<"A">> :> a.graph) @@
                 (<<"B">> :> b.graph) @@
                 (<<"my_interpolate", 1>> :> g.graph) @@
                 [gid \in {<<"relu", k>> : k \in 1..MaxOut} |-> f[gid[2]].graph]]

(***************************************************************************)
(* IR primitives the pass calls.                                           *)
(***************************************************************************)
\* Value::type()
ValueType(ns, v) == ns[v[1]].otypes[v[2]]

\* Node::hasUses(), over the nodes ns
HasUses(ns, id) ==
  \E m \in DOMAIN ns : \E i \in DOMAIN ns[m].inputs : ns[m].inputs[i][1] = id

Without(seq, id) == SelectSeq(seq, LAMBDA x : x # id)

\* Node::destroy(): the node leaves its block and its graph; log records
\* whether it still had uses at that moment
Destroy(st, id) ==
  [nodes |-> [m \in DOMAIN st.nodes \ {id} |->
                IF st.nodes[m].blocks = <<>> THEN st.nodes[m]
                ELSE [st.nodes[m] EXCEPT
                        !.blocks = [b \in DOMAIN @ |-> Without(@[b], id)]]],
   graphs |-> [g \in DOMAIN st.graphs |->
                 [st.graphs[g] EXCEPT !.body = Without(@, id)]],
   log |-> Append(st.log, [id |-> id, kind |-> st.nodes[id].kind,
                           used |-> HasUses(st.nodes, id)])]

\* Node::replaceAllUsesWith / Value::replaceAllUsesWith: every input that
\* is output i of node id becomes new[i]
ReplaceAllUsesWith(ns, id, new) ==
  [m \in DOMAIN ns |->
     IF \E i \in DOMAIN ns[m].inputs : ns[m].inputs[i][1] = id
     THEN [ns[m] EXCEPT
             !.inputs = [i \in DOMAIN @ |->
                           IF @[i][1] = id THEN new[@[i][2]] ELSE @[i]]]
     ELSE ns[m]]

\* a block: the body of graph g (n = 0) or block i of node n
GraphBlock(g) == [g |-> g, n |-> 0, i |-> 0]
NodeBlock(g, n, i) == [g |-> g, n |-> n, i |-> i]

\* no activation
NoFrame ==
  [g |-> <<"main">>, blk |-> GraphBlock(<<"main">>), it |-> 0, cur |-> 0,
   ph |-> "none", callee |-> <<>>, guards |-> <<>>, bi |-> 0,
   pre |-> [x \in {} |-> x], begun |-> <<>>, dispatched |-> <<>>]

\* Block::nodes()
BlockNodes(st, b) ==
  IF b.n = 0 THEN st.graphs[b.g].body ELSE st.nodes[b.n].blocks[b.i]

SetBlockNodes(st, b, seq) ==
  IF b.n = 0
  THEN [st EXCEPT !.graphs[b.g].body = seq]
  ELSE [st EXCEPT !.nodes[b.n].blocks[b.i] = seq]

Index(seq, x) == CHOOSE j \in 1..Len(seq) : seq[j] = x

\* seq with the sequence ins put right before x (after = FALSE) or right
\* after it (after = TRUE)
InsertAt(seq, x, ins, after) ==
  LET j == Index(seq, x)
  IN IF after THEN SubSeq(seq, 1, j) \o ins \o SubSeq(seq, j + 1, Len(seq))
     ELSE SubSeq(seq, 1, j - 1) \o ins \o SubSeq(seq, j, Len(seq))

RECURSIVE Flatten(_, _)
\* the nodes of a block and of the blocks nested in it, in order
Flatten(ns, seq) ==
  IF seq = <<>> THEN <<>>
  ELSE LET n == Head(seq)
           inner == [b \in DOMAIN ns[n].blocks |-> Flatten(ns, ns[n].blocks[b])]
           RECURSIVE Cat(_)
           Cat(i) == IF i > Len(inner) THEN <<>> ELSE inner[i] \o Cat(i + 1)
       IN <<n>> \o Cat(1) \o Flatten(ns, Tail(seq))

(***************************************************************************)
(* Scopes.  A scope is the path of labels from the root; the blank scope   *)
(* is the empty path.                                                      *)
(***************************************************************************)
\* Scope::isBlank()
IsBlank(scope) == scope = <<>>

\* Scope::push(Symbol::scope(name))
Push(scope, name) == Append(scope, name)

\* onnx::ONNXScopeName::createFullScopeName
createFullScopeName(class_name, variable_name) ==
  class_name \o "::" \o variable_name

\* WithCurrentScope(graph, scope): the guard remembers the graph's scope,
\* and the graph's scope becomes scope
WithCurrentScope(cs, g, scope) ==
  [guard |-> [graph |-> g, prev_scope |-> cs[g]],
   cs |-> [cs EXCEPT ![g] = scope]]

\* ~WithCurrentScope()
Release(cs, guard) == [cs EXCEPT ![guard.graph] = guard.prev_scope]

RECURSIVE ReleaseAll(_, _)
\* the guards of one activation go out of scope, the last made first
ReleaseAll(cs, guards) ==
  IF guards = <<>> THEN cs
  ELSE ReleaseAll(Release(cs, guards[Len(guards)]),
                  SubSeq(guards, 1, Len(guards) - 1))

(***************************************************************************)
(* The pass's helpers.                                                     *)
(***************************************************************************)
top_module_variable_name == ""

RECURSIVE TidyAtomsDotAlways(_, _)
\* a variant of the loop that puts the "." without asking whether out is
\* empty
TidyAtomsDotAlways(atoms, out) ==
  IF atoms = <<>> THEN out
  ELSE LET atom == Head(atoms)
           isInternalTorchAtom == atom = "__torch__"
           isMangleAtom == Contains(atom, "__torch_mangle")
       IN TidyAtomsDotAlways(Tail(atoms),
                             IF ~isInternalTorchAtom /\ ~isMangleAtom
                             THEN out \o "." \o atom
                             ELSE out)

RECURSIVE TidyAtomsStrippingMarker(_, _)
\* a variant of the loop that takes for a mangle atom only an atom that
\* begins with the marker
TidyAtomsStrippingMarker(atoms, out) ==
  IF atoms = <<>> THEN out
  ELSE LET atom == Head(atoms)
           isInternalTorchAtom == atom = "__torch__"
           isMangleAtom == Len(atom) >= 14 /\ SubSeq(atom, 1, 14) = "__torch_mangle"
       IN TidyAtomsStrippingMarker(Tail(atoms),
                                   IF ~isInternalTorchAtom /\ ~isMangleAtom
                                   THEN (IF out # "" THEN out \o "." ELSE out) \o atom
                                   ELSE out)

RECURSIVE TidyAtoms(_, _)
\* the loop of TidyClassNameFromTorchScript: out after the atoms
TidyAtoms(atoms, out) ==
  IF atoms = <<>> THEN out
  ELSE LET atom == Head(atoms)
           isInternalTorchAtom == atom = "__torch__"
           isMangleAtom == Contains(atom, "__torch_mangle")
       IN TidyAtoms(Tail(atoms),
                    IF ~isInternalTorchAtom /\ ~isMangleAtom
                    THEN (IF out # "" THEN out \o "." ELSE out) \o atom
                    ELSE out)

\* class_name is <<>> (absent) or <<atoms>>
TidyClassNameFromTorchScript(class_name) ==
  IF class_name = <<>> THEN "UNKNOWN_CLASS" ELSE TidyAtoms(class_name[1], "")

ModuleListName == "__torch__.torch.nn.modules.container.ModuleList"

\* whether the type of value v casts to ClassType with the container's name
IsModuleList(ns, v) ==
  /\ ValueType(ns, v).tag = "Class"
  /\ ClassName(ValueType(ns, v).id[1]) # <<>>
  /\ JoinDots(ClassName(ValueType(ns, v).id[1])[1]) = ModuleListName

RECURSIVE ContainerWalkAppending(_, _, _)
\* a variant of the walk that puts the container's name after the name
\* it has so far
ContainerWalkAppending(ns, pv, module_name) ==
  IF pv # <<>> /\ IsModuleList(ns, pv[1])
  THEN LET parent_module_node == ns[pv[1][1]]
       IN IF parent_module_node.name = <<>>
          THEN [ok |-> FALSE, val |-> module_name]
          ELSE ContainerWalkAppending(
                 ns,
                 IF Len(parent_module_node.inputs) > 0
                 THEN <<parent_module_node.inputs[1]>> ELSE <<>>,
                 module_name \o "." \o parent_module_node.name[1])
  ELSE [ok |-> TRUE, val |-> module_name]

RECURSIVE ContainerWalk(_, _, _)
\* the while loop of GetCallNodeVariableName; pv is <<>> (nullptr) or
\* <<parent_module_value>>; Node::s(attr::name) throws without the attribute
ContainerWalk(ns, pv, module_name) ==
  IF pv # <<>> /\ IsModuleList(ns, pv[1])
  THEN LET parent_module_node == ns[pv[1][1]]
       IN IF parent_module_node.name = <<>>
          THEN [ok |-> FALSE, val |-> module_name]
          ELSE ContainerWalk(
                 ns,
                 IF Len(parent_module_node.inputs) > 0
                 THEN <<parent_module_node.inputs[1]>> ELSE <<>>,
                 parent_module_node.name[1] \o "." \o module_name)
  ELSE [ok |-> TRUE, val |-> module_name]

\* [ok |-> TRUE, val |-> the name] or [ok |-> FALSE, ...] when it throws
GetCallNodeVariableName(ns, call_node) ==
  LET module_node == ns[ns[call_node].inputs[1][1]]
  IN IF module_node.name = <<>> THEN [ok |-> TRUE, val |-> ""]
     ELSE IF Len(module_node.inputs) = 0
     THEN [ok |-> TRUE, val |-> module_node.name[1]]
     ELSE ContainerWalk(ns, <<module_node.inputs[1]>>, module_node.name[1])

\* the scope SetScopeGuardForCall makes current
CallScope(ns, cs, g, call_node) ==
  LET type == ValueType(ns, ns[call_node].inputs[1])
      class_name == TidyClassNameFromTorchScript(ClassName(type.id[1]))
      variable_name == GetCallNodeVariableName(ns, call_node).val
      scope_name == createFullScopeName(class_name, variable_name)
  IN Push(cs[g], scope_name)

SetScopeGuardForCall(ns, cs, g, call_node) ==
  WithCurrentScope(cs, g, CallScope(ns, cs, g, call_node))

\* a variant that makes the root label from the class name as it is
TopLevelScopeUntidied(ns, gs, cs, g) ==
  LET inputs == ns[gs[g].param].otypes
  IN IF Len(inputs) = 0 THEN cs[g]
     ELSE IF inputs[1].tag = "Class"
     THEN Push(cs[g],
               createFullScopeName(JoinDots(ClassName(inputs[1].id[1])[1]),
                                   top_module_variable_name))
     ELSE cs[g]

\* the scope ONNXGraphTopLevelScopeGuard makes current
TopLevelScope(ns, gs, cs, g) ==
  LET inputs == ns[gs[g].param].otypes
  IN IF Len(inputs) = 0 THEN cs[g]
     ELSE IF inputs[1].tag = "Class"
     THEN Push(cs[g],
               createFullScopeName(
                 TidyClassNameFromTorchScript(ClassName(inputs[1].id[1])),
                 top_module_variable_name))
     ELSE cs[g]

ONNXGraphTopLevelScopeGuard(ns, gs, cs, g) ==
  WithCurrentScope(cs, g, TopLevelScope(ns, gs, cs, g))

(***************************************************************************)
(* The initial state: a program, and the target graph's ambient scope.     *)
(***************************************************************************)
Init ==
  \E first \in {"Top", "Net", "Tensor", "none"}, ambient \in {<<>>, <<"outer">>} :
    \E main \in MainBodies(first) :
      \E abody \in (IF CallsA(main) THEN ABodies ELSE {<<S0("op")>>}) :
        \E p \in {Program(first, main, abody)} :
           /\ nodes = [id \in DOMAIN p.nodes |->
                         [kind |-> p.nodes[id].kind,
                          inputs |-> p.nodes[id].inputs,
                          otypes |-> p.nodes[id].otypes,
                          scope |-> p.nodes[id].scope,
                          name |-> p.nodes[id].name,
                          blocks |-> p.nodes[id].blocks,
                          orig |-> id, via |-> <<>>]]
           /\ graphs = p.graphs
           /\ current_scope = [g \in DOMAIN p.graphs |->
                                 IF g = <<"main">> THEN ambient ELSE <<>>]
           /\ stack = <<>>
           /\ pc = "start"
           /\ top_guard = <<>>
           /\ nextId = 1000
           /\ hist = [op |-> "Init", fr |-> NoFrame, nodes |-> NoNodes,
                       graphs |-> NoNodes, scope |-> NoNodes, log |-> <<>>,
                       threw |-> FALSE, ambient |-> ambient,
                       src |-> [nodes |-> nodes, graphs |-> p.graphs]]

(***************************************************************************)
(* inlineCallTo(cur, callee, false): the callee's body is cloned in front  *)
(* of cur with the callee's inputs replaced by cur's inputs, the uses of   *)
(* cur's outputs become uses of the cloned return values, cur is           *)
(* destroyed.  A clone is created under the caller's current scope and     *)
(* takes the source's scope when that is not blank.  nid is the first      *)
(* fresh node id, scope the caller graph's current scope.                  *)
(***************************************************************************)
inlineCallTo(st, nid, scope, blk, cur, callee) ==
  LET ns == st.nodes
      cg == st.graphs[callee]
      list == Flatten(ns, cg.body)
      old == {list[i] : i \in 1..Len(list)}
      newId == [o \in old |-> nid + Index(list, o) - 1]
      args == ns[cur].inputs
      path == ns[cur].via \o <<ns[cur].orig>>
      vmap(v) == IF v[1] = cg.param THEN args[v[2]]
                 ELSE IF v[1] \in old THEN <<newId[v[1]], v[2]>> ELSE v
      clones == [id \in nid..(nid + Len(list) - 1) |->
                   [kind |-> ns[list[id - nid + 1]].kind,
                    inputs |-> [i \in DOMAIN ns[list[id - nid + 1]].inputs |->
                                  vmap(ns[list[id - nid + 1]].inputs[i])],
                    otypes |-> ns[list[id - nid + 1]].otypes,
                    scope |-> IF IsBlank(ns[list[id - nid + 1]].scope) THEN scope
                              ELSE ns[list[id - nid + 1]].scope,
                    name |-> ns[list[id - nid + 1]].name,
                    blocks |-> [b \in DOMAIN ns[list[id - nid + 1]].blocks |->
                                  [k \in DOMAIN ns[list[id - nid + 1]].blocks[b] |->
                                     newId[ns[list[id - nid + 1]].blocks[b][k]]]],
                    orig |-> ns[list[id - nid + 1]].orig,
                    via |-> path \o ns[list[id - nid + 1]].via]]
      new_outputs == [i \in DOMAIN ns[cg.ret].inputs |-> vmap(ns[cg.ret].inputs[i])]
  IN [st |-> Destroy(
               SetBlockNodes(
                 [st EXCEPT !.nodes = ReplaceAllUsesWith(ns, cur, new_outputs) @@ clones],
                 blk,
                 InsertAt(BlockNodes(st, blk), cur,
                          [k \in DOMAIN cg.body |-> newId[cg.body[k]]], FALSE)),
               cur),
      nextId |-> nid + Len(list)]

(***************************************************************************)
(* Activations of functionCallSubstitution(block).  ph says where the      *)
(* activation stands: "loop" at the head of its for loop, "fn" / "meth"    *)
(* inside the recursive call on a callee's body, "blocks" inside the       *)
(* recursive call on block bi of cur.  it is the iterator (0: end), cur    *)
(* the node being handled, guards the WithCurrentScope objects alive in    *)
(* the handling of cur, pre the scopes of all graphs when the handling of  *)
(* cur began.  begun and dispatched record the traversal: the nodes of the *)
(* block when the activation started and the nodes its loop has fetched.   *)
(***************************************************************************)
Store == [nodes |-> nodes, graphs |-> graphs, log |-> <<>>]

Frame(g, blk) ==
  [g |-> g, blk |-> blk,
   it |-> IF BlockNodes(Store, blk) = <<>> THEN 0 ELSE BlockNodes(Store, blk)[1],
   cur |-> 0, ph |-> "loop", callee |-> <<>>, guards |-> <<>>, bi |-> 0,
   pre |-> NoNodes, begun |-> BlockNodes(Store, blk), dispatched |-> <<>>]

Fr == stack[Len(stack)]
Caller == stack[Len(stack) - 1]
Below(n) == SubSeq(stack, 1, Len(stack) - n)

AtNode == pc = "run" /\ stack # <<>> /\ Fr.ph = "loop" /\ Fr.it # 0
AtEnd == pc = "run" /\ stack # <<>> /\ Fr.ph = "loop" /\ Fr.it = 0

\* a variant of the fetch that advances the iterator twice
FetchSkipping(f) ==
  LET seq == BlockNodes(Store, f.blk)
      j == Index(seq, f.it)
  IN [f EXCEPT !.cur = f.it, !.it = IF j + 1 >= Len(seq) THEN 0 ELSE seq[j + 2],
               !.pre = current_scope, !.dispatched = Append(@, f.it)]

\* Node* cur = *it++;
Fetch(f) ==
  LET seq == BlockNodes(Store, f.blk)
      j == Index(seq, f.it)
  IN [f EXCEPT !.cur = f.it, !.it = IF j = Len(seq) THEN 0 ELSE seq[j + 1],
               !.pre = current_scope, !.dispatched = Append(@, f.it)]

\* the history of a step: the activation f it ran in, the state it started
\* in, the nodes it destroyed, whether it threw; ambient and src are the
\* target graph's scope and the program before the pass
H(op, f, st, threw) ==
  [op |-> op, fr |-> f, nodes |-> nodes, graphs |-> graphs,
   scope |-> current_scope, log |-> st.log, threw |-> threw,
   ambient |-> hist.ambient, src |-> hist.src]

(***************************************************************************)
(* ONNXFunctionCallSubstitution(graph): the top-level guard, then the      *)
(* pass on the graph's block.                                              *)
(***************************************************************************)
ONNXFunctionCallSubstitution ==
  /\ pc = "start"
  /\ \E w \in {ONNXGraphTopLevelScopeGuard(nodes, graphs, current_scope, <<"main">>)} :
       /\ top_guard' = w.guard
       /\ current_scope' = w.cs
  /\ stack' = <<Frame(<<"main">>, GraphBlock(<<"main">>))>>
  /\ pc' = "run"
  /\ hist' = H("ONNXFunctionCallSubstitution", Frame(<<"main">>, GraphBlock(<<"main">>)),
               Store, FALSE)
  /\ UNCHANGED <<nodes, graphs, nextId>>

\* the pass returns: top_level_scope_guard goes out of scope
ReturnFromPass ==
  /\ AtEnd /\ Len(stack) = 1
  /\ current_scope' = Release(current_scope, top_guard)
  /\ stack' = <<>>
  /\ pc' = "done"
  /\ hist' = H("ReturnFromPass", Fr, Store, FALSE)
  /\ UNCHANGED <<nodes, graphs, top_guard, nextId>>

(***************************************************************************)
(* default: stamp the current scope, recurse into the node's blocks.       *)
(***************************************************************************)
\* a variant of the stamping that leaves an annotated node alone
StampedScopeKeepingAnnotation(cs, g, scope) ==
  IF ~IsBlank(cs[g]) /\ IsBlank(scope) THEN cs[g] ELSE scope

\* the scope of cur after lines 145-147
StampedScope(cs, g, scope) == IF ~IsBlank(cs[g]) THEN cs[g] ELSE scope

VisitDefault ==
  /\ AtNode
  /\ nodes[Fr.it].kind \notin {"prim::CallFunction", "prim::CallMethod"}
  /\ \E f \in {Fetch(Fr)} :
       /\ nodes' = [nodes EXCEPT ![f.cur].scope = StampedScope(current_scope, f.g, @)]
       /\ stack' = IF nodes[f.cur].blocks = <<>>
                   THEN Below(1) \o <<f>>
                   ELSE Below(1) \o <<[f EXCEPT !.ph = "blocks", !.bi = 1],
                                      Frame(f.g, NodeBlock(f.g, f.cur, 1))>>
       /\ hist' = H("VisitDefault", f, Store, FALSE)
  /\ UNCHANGED <<graphs, current_scope, pc, top_guard, nextId>>

\* a variant of the return into the loop over cur->blocks() that leaves
\* the finished activation on the stack
ReturnFromBlockWithoutPop ==
  /\ AtEnd /\ Len(stack) > 1 /\ Caller.ph = "blocks"
  /\ stack' = IF Caller.bi < Len(nodes[Caller.cur].blocks)
              THEN Below(2) \o <<[Caller EXCEPT !.bi = @ + 1], Fr,
                                 Frame(Caller.g,
                                       NodeBlock(Caller.g, Caller.cur, Caller.bi + 1))>>
              ELSE Below(2) \o <<[Caller EXCEPT !.ph = "loop", !.bi = 0]>>
  /\ hist' = H("ReturnFromBlock", Caller, Store, FALSE)
  /\ UNCHANGED <<nodes, graphs, current_scope, pc, top_guard, nextId>>

\* functionCallSubstitution(b) returns into the loop over cur->blocks()
ReturnFromBlock ==
  /\ AtEnd /\ Len(stack) > 1 /\ Caller.ph = "blocks"
  /\ stack' = IF Caller.bi < Len(nodes[Caller.cur].blocks)
              THEN Below(2) \o <<[Caller EXCEPT !.bi = @ + 1],
                                 Frame(Caller.g,
                                       NodeBlock(Caller.g, Caller.cur, Caller.bi + 1))>>
              ELSE Below(2) \o <<[Caller EXCEPT !.ph = "loop", !.bi = 0]>>
  /\ hist' = H("ReturnFromBlock", Caller, Store, FALSE)
  /\ UNCHANGED <<nodes, graphs, current_scope, pc, top_guard, nextId>>

(***************************************************************************)
(* case prim::CallFunction                                                 *)
(***************************************************************************)
\* lines 87-90: input 0 is a constant of function type
IsFunctionConstant(ns, v) ==
  /\ ns[v[1]].kind = "prim::Constant"
  /\ Len(ns[v[1]].otypes) = 1
  /\ ns[v[1]].otypes[1].tag = "Function"

\* lines 92-95
IsInterpolate(qualname) ==
  Contains(qualname, "torch.nn.functional") /\ Contains(qualname, "interpolate")

\* the function of the constant that feeds input 0 of the call
Callee(ns, call) == ns[ns[call].inputs[1][1]].otypes[1].id

\* a variant that destroys the node that fed input 0 without asking
\* whether it still has uses
DestroysInput0Always(ns, input_node_0) == TRUE

\* whether the node that fed input 0 is destroyed (lines 99, 123)
DestroysInput0(ns, input_node_0) == ~HasUses(ns, input_node_0)

\* lines 97-101 and 121-125: input 0 is removed, and the node that fed it
\* is destroyed when that leaves it without uses
RemoveCallee(st, cur) ==
  LET input_node_0 == st.nodes[cur].inputs[1][1]
      ns == [st.nodes EXCEPT ![cur].inputs = Tail(@)]
  IN IF DestroysInput0(ns, input_node_0)
     THEN Destroy([st EXCEPT !.nodes = ns], input_node_0)
     ELSE [st EXCEPT !.nodes = ns]

\* the inputs of the node Graph::create is given (line 104)
InterpolateInputs(ns, cur) == ns[cur].inputs

\* the node of lines 102-108, with id; scope is what copyMetadata leaves
InterpolateNode(ns, cur, id, scope) ==
  [kind |-> "aten::__interpolate",
   inputs |-> InterpolateInputs(ns, cur),
   otypes |-> [i \in DOMAIN ns[cur].otypes |->
                 IF i = 1 THEN ns[cur].otypes[1] ELSE TensorT],
   scope |-> scope, name |-> <<>>, blocks |-> <<>>,
   orig |-> id, via |-> ns[cur].via]

\* Node::output() (line 106) asserts that the node has exactly one output
SingleOutput(ns, cur) == Len(ns[cur].otypes) = 1

\* lines 96-111 on the store s (input 0 already removed)
SubstituteInterpolate(s, id, cs, blk, cur) ==
  IF ~SingleOutput(s.nodes, cur)
  THEN \* line 106 throws; the created node was never inserted
       [s EXCEPT !.nodes = @ @@ (id :> InterpolateNode(s.nodes, cur, id, cs))]
  ELSE Destroy(
         SetBlockNodes(
           [s EXCEPT !.nodes =
              [ReplaceAllUsesWith(s.nodes, cur, Outs(id, Len(s.nodes[cur].otypes)))
                 EXCEPT ![cur].inputs = <<>>] @@
              (id :> InterpolateNode(s.nodes, cur, id, s.nodes[cur].scope))],
           blk, InsertAt(BlockNodes(s, blk), cur, <<id>>, TRUE)),
         cur)

\* lines 87-90 fail
VisitCallFunctionAssert ==
  /\ AtNode
  /\ nodes[Fr.it].kind = "prim::CallFunction"
  /\ ~IsFunctionConstant(nodes, nodes[Fr.it].inputs[1])
  /\ \E f \in {Fetch(Fr)} :
       /\ stack' = Below(1) \o <<f>>
       /\ hist' = H("VisitCallFunctionAssert", f, Store, TRUE)
  /\ pc' = "throwing"
  /\ UNCHANGED <<nodes, graphs, current_scope, top_guard, nextId>>

\* lines 92-118
VisitCallFunctionInterpolate ==
  /\ AtNode
  /\ nodes[Fr.it].kind = "prim::CallFunction"
  /\ IsFunctionConstant(nodes, nodes[Fr.it].inputs[1])
  /\ IsInterpolate(FunctionQualName(Callee(nodes, Fr.it)))
  /\ \E f \in {Fetch(Fr)} :
       \E s \in {RemoveCallee(Store, f.cur)} :
         \E r \in {SubstituteInterpolate(s, nextId, current_scope[f.g], f.blk, f.cur)} :
           /\ nodes' = r.nodes
           /\ graphs' = r.graphs
           /\ stack' = Below(1) \o <<f>>
           /\ pc' = IF SingleOutput(nodes, f.cur) THEN "run" ELSE "throwing"
           /\ hist' = H("VisitCallFunctionInterpolate", f, r, ~SingleOutput(nodes, f.cur))
  /\ nextId' = nextId + 1
  /\ UNCHANGED <<current_scope, top_guard>>

\* lines 119-127: the pass is called on the callee's body
VisitCallFunctionInline ==
  /\ AtNode
  /\ nodes[Fr.it].kind = "prim::CallFunction"
  /\ IsFunctionConstant(nodes, nodes[Fr.it].inputs[1])
  /\ ~IsInterpolate(FunctionQualName(Callee(nodes, Fr.it)))
  /\ \E f \in {Fetch(Fr)} :
       \E s \in {RemoveCallee(Store, f.cur)} :
         /\ nodes' = s.nodes
         /\ graphs' = s.graphs
         /\ stack' = Below(1) \o
                     <<[f EXCEPT !.ph = "fn",
                                 !.callee = FunctionGraph(Callee(nodes, f.cur))],
                       Frame(FunctionGraph(Callee(nodes, f.cur)),
                             GraphBlock(FunctionGraph(Callee(nodes, f.cur))))>>
         /\ hist' = H("VisitCallFunctionInline", f, s, FALSE)
  /\ UNCHANGED <<current_scope, pc, top_guard, nextId>>

\* a variant of the return into a function call that forgets to splice
\* the body in
ReturnWithoutInlining ==
  /\ AtEnd /\ Len(stack) > 1 /\ Caller.ph = "fn"
  /\ hist' = H("ReturnFromFunction", Caller, Store, FALSE)
  /\ stack' = Below(2) \o <<[Caller EXCEPT !.ph = "loop", !.callee = <<>>]>>
  /\ UNCHANGED <<nodes, graphs, nextId, current_scope, pc, top_guard>>

\* line 128: the callee's body is done, it is spliced in
ReturnFromFunction ==
  /\ AtEnd /\ Len(stack) > 1 /\ Caller.ph = "fn"
  /\ \E r \in {inlineCallTo(Store, nextId, current_scope[Caller.g], Caller.blk,
                            Caller.cur, Caller.callee)} :
       /\ nodes' = r.st.nodes
       /\ graphs' = r.st.graphs
       /\ nextId' = r.nextId
       /\ hist' = H("ReturnFromFunction", Caller, r.st, FALSE)
  /\ stack' = Below(2) \o <<[Caller EXCEPT !.ph = "loop", !.callee = <<>>]>>
  /\ UNCHANGED <<current_scope, pc, top_guard>>

(***************************************************************************)
(* case prim::CallMethod                                                   *)
(***************************************************************************)
\* line 133: cur->input(0)->type()->cast<ClassType>()
ReceiverIsClass(ns, cur) == ValueType(ns, ns[cur].inputs[1]).tag = "Class"

\* lines 134 and 136: the graph of the method's body, <<>> or <<graph>>
ReceiverMethod(ns, cur) ==
  MethodGraph(ValueType(ns, ns[cur].inputs[1]).id[1], ns[cur].name[1])

\* line 133 finds no class type: the node is skipped
VisitCallMethodNonClass ==
  /\ AtNode
  /\ nodes[Fr.it].kind = "prim::CallMethod"
  /\ ~ReceiverIsClass(nodes, Fr.it)
  /\ \E f \in {Fetch(Fr)} :
       /\ stack' = Below(1) \o <<f>>
       /\ hist' = H("VisitCallMethodNonClass", f, Store, FALSE)
  /\ UNCHANGED <<nodes, graphs, current_scope, pc, top_guard, nextId>>

\* line 135: GetCallNodeVariableName throws inside SetScopeGuardForCall
VisitCallMethodThrow ==
  /\ AtNode
  /\ nodes[Fr.it].kind = "prim::CallMethod"
  /\ ReceiverIsClass(nodes, Fr.it)
  /\ ~GetCallNodeVariableName(nodes, Fr.it).ok
  /\ \E f \in {Fetch(Fr)} :
       /\ stack' = Below(1) \o <<f>>
       /\ hist' = H("VisitCallMethodThrow", f, Store, TRUE)
  /\ pc' = "throwing"
  /\ UNCHANGED <<nodes, graphs, current_scope, top_guard, nextId>>

\* a variant in which the call's scope is made current without a guard,
\* so that nothing restores it
OpaqueScopeKept(ns, cs, g, cur) == SetScopeGuardForCall(ns, cs, g, cur).cs

\* the graph's scope when the handling of an opaque method call ends:
\* scope_guard is made (line 135) and goes out of scope (line 142)
OpaqueScope(ns, cs, g, cur) ==
  Release(SetScopeGuardForCall(ns, cs, g, cur).cs,
          SetScopeGuardForCall(ns, cs, g, cur).guard)

\* lines 133-136, 141-142: the method has no graph
VisitCallMethodOpaque ==
  /\ AtNode
  /\ nodes[Fr.it].kind = "prim::CallMethod"
  /\ ReceiverIsClass(nodes, Fr.it)
  /\ GetCallNodeVariableName(nodes, Fr.it).ok
  /\ ReceiverMethod(nodes, Fr.it) = <<>>
  /\ \E f \in {Fetch(Fr)} :
       /\ current_scope' = OpaqueScope(nodes, current_scope, f.g, f.cur)
       /\ stack' = Below(1) \o <<f>>
       /\ hist' = H("VisitCallMethodOpaque", f, Store, FALSE)
  /\ UNCHANGED <<nodes, graphs, pc, top_guard, nextId>>

\* lines 137-138: the guard on the callee's graph, made when the caller's
\* scope is already the call's scope (cs)
InnerGuard(cs, g, callee) == WithCurrentScope(cs, callee, cs[g])

\* a variant of the method-call case without line 139: the method's body
\* is spliced in as it is
VisitCallMethodWithoutRecursion ==
  /\ AtNode
  /\ nodes[Fr.it].kind = "prim::CallMethod"
  /\ ReceiverIsClass(nodes, Fr.it)
  /\ GetCallNodeVariableName(nodes, Fr.it).ok
  /\ ReceiverMethod(nodes, Fr.it) # <<>>
  /\ \E f \in {Fetch(Fr)}, callee \in {ReceiverMethod(nodes, Fr.it)[1]} :
       \E scope_guard \in {SetScopeGuardForCall(nodes, current_scope, f.g, f.cur)} :
         \E inner \in {InnerGuard(scope_guard.cs, f.g, callee)} :
           /\ current_scope' = inner.cs
           /\ stack' = Below(1) \o
                       <<[f EXCEPT !.ph = "meth", !.callee = callee,
                                   !.guards = <<scope_guard.guard, inner.guard>>],
                         [Frame(callee, GraphBlock(callee)) EXCEPT
                            !.it = 0, !.begun = <<>>]>>
           /\ hist' = H("VisitCallMethodInline", f, Store, FALSE)
  /\ UNCHANGED <<nodes, graphs, pc, top_guard, nextId>>

\* lines 133-139: both guards, then the pass on the method's body
VisitCallMethodInline ==
  /\ AtNode
  /\ nodes[Fr.it].kind = "prim::CallMethod"
  /\ ReceiverIsClass(nodes, Fr.it)
  /\ GetCallNodeVariableName(nodes, Fr.it).ok
  /\ ReceiverMethod(nodes, Fr.it) # <<>>
  /\ \E f \in {Fetch(Fr)}, callee \in {ReceiverMethod(nodes, Fr.it)[1]} :
       \E scope_guard \in {SetScopeGuardForCall(nodes, current_scope, f.g, f.cur)} :
         \E inner \in {InnerGuard(scope_guard.cs, f.g, callee)} :
           /\ current_scope' = inner.cs
           /\ stack' = Below(1) \o
                       <<[f EXCEPT !.ph = "meth", !.callee = callee,
                                   !.guards = <<scope_guard.guard, inner.guard>>],
                         Frame(callee, GraphBlock(callee))>>
           /\ hist' = H("VisitCallMethodInline", f, Store, FALSE)
  /\ UNCHANGED <<nodes, graphs, pc, top_guard, nextId>>

\* lines 140-142: the body is spliced in, both guards go out of scope
ReturnFromMethod ==
  /\ AtEnd /\ Len(stack) > 1 /\ Caller.ph = "meth"
  /\ \E r \in {inlineCallTo(Store, nextId, current_scope[Caller.g], Caller.blk,
                            Caller.cur, Caller.callee)} :
       /\ nodes' = r.st.nodes
       /\ graphs' = r.st.graphs
       /\ nextId' = r.nextId
       /\ hist' = H("ReturnFromMethod", Caller, r.st, FALSE)
  /\ current_scope' = ReleaseAll(current_scope, Caller.guards)
  /\ stack' = Below(2) \o <<[Caller EXCEPT !.ph = "loop", !.callee = <<>>,
                                          !.guards = <<>>]>>
  /\ UNCHANGED <<pc, top_guard>>

(***************************************************************************)
(* An exception leaves the activations one by one; the guards of each go   *)
(* out of scope on the way.                                                *)
(***************************************************************************)
\* a variant in which the scopes are popped by hand at the end of the
\* handler, so that an exception skips the pops
UnwindWithoutPop ==
  /\ pc = "throwing" /\ stack # <<>>
  /\ stack' = Below(1)
  /\ hist' = H("Unwind", Fr, Store, TRUE)
  /\ UNCHANGED <<nodes, graphs, current_scope, pc, top_guard, nextId>>

Unwind ==
  /\ pc = "throwing" /\ stack # <<>>
  /\ current_scope' = ReleaseAll(current_scope, Fr.guards)
  /\ stack' = Below(1)
  /\ hist' = H("Unwind", Fr, Store, TRUE)
  /\ UNCHANGED <<nodes, graphs, pc, top_guard, nextId>>

\* the exception leaves ONNXFunctionCallSubstitution
UnwindPass ==
  /\ pc = "throwing" /\ stack = <<>>
  /\ current_scope' = Release(current_scope, top_guard)
  /\ pc' = "aborted"
  /\ hist' = H("UnwindPass", NoFrame, Store, TRUE)
  /\ UNCHANGED <<nodes, graphs, stack, top_guard, nextId>>

Next ==
  \/ ONNXFunctionCallSubstitution
  \/ ReturnFromPass
  \/ VisitDefault
  \/ ReturnFromBlock
  \/ VisitCallFunctionAssert
  \/ VisitCallFunctionInterpolate
  \/ VisitCallFunctionInline
  \/ ReturnFromFunction
  \/ VisitCallMethodNonClass
  \/ VisitCallMethodThrow
  \/ VisitCallMethodOpaque
  \/ VisitCallMethodInline
  \/ ReturnFromMethod
  \/ Unwind
  \/ UnwindPass

Spec == Init /\ [][Next]_vars

(***************************************************************************)
(* TidyClassNameFromTorchScript on its own: the class name is drawn from   *)
(* the names of at most MaxAtoms atoms, or is absent, and the function is  *)
(* called on it.  An atom of a c10::QualifiedName is never empty.          *)
(***************************************************************************)
Atoms == {"__torch__", "pkg", "M", "M__torch_mangle_3", "___torch_mangle_3"}

\* <<>> (absent) or <<atoms>>
ClassNames ==
  {<<>>} \cup {<<a>> : a \in UNION {[1..n -> Atoms] : n \in 1..MaxAtoms}}

TidyInit ==
  /\ nodes = NoNodes
  /\ graphs = NoNodes
  /\ current_scope = NoNodes
  /\ stack = <<>>
  /\ pc = "start"
  /\ top_guard = <<>>
  /\ nextId = 0
  /\ \E class_name \in ClassNames :
       hist = [op |-> "Init", class_name |-> class_name, out |-> ""]

\* the call TidyClassNameFromTorchScript(class_name)
CallTidyClassName ==
  /\ pc = "start"
  /\ pc' = "done"
  /\ hist' = [op |-> "TidyClassNameFromTorchScript",
              class_name |-> hist.class_name,
              out |-> TidyClassNameFromTorchScript(hist.class_name)]
  /\ UNCHANGED <<nodes, graphs, current_scope, stack, top_guard, nextId>>

TidyNext == CallTidyClassName

TidySpec == TidyInit /\ [][TidyNext]_vars

(***************************************************************************)
(* GetCallNodeVariableName on its own, one iteration of its while loop a   *)
(* step.  Node 0 is the call, node 1 the producer of its input 0, nodes    *)
(* 2..n the producers a chain leads through; the input 0 of the last one   *)
(* may be any of them, itself and an earlier one included, as the calls    *)
(* that set a node's inputs allow.  stack holds the activation: the local       *)
(* variables parent_module_value (<<>> for nullptr) and module_name, and   *)
(* the producers whose name the loop has read.                             *)
(***************************************************************************)
\* a producer: named or not, of container type or not, fed by node input
\* (0: it has no inputs)
ChainProducer(type, name, input) ==
  N("prim::GetAttr", IF input = 0 THEN <<>> ELSE << <<input, 1>> >>,
    <<ClassT(type)>>, <<>>, name, <<>>)

\* the chains of n producers: each is fed by the next, the last by none
\* or by one of the chain (last); following first inputs from node 1, any
\* graph of producers looks like this
Chains(n) ==
  {(0 :> CallMethod(<<1, 1>>, <<1, 1>>)) @@
   [k \in 1..n |->
      ChainProducer(IF k = 1 THEN "B" ELSE c[k].type, c[k].name,
                    IF k < n THEN k + 1 ELSE last)] :
     c \in [1..n -> [type : {"ML", "B"}, name : {<<>>, <<"m">>}]],
     last \in {0} \cup 2..n}

\* the loop is followed for at most this many iterations
WalkCap == MaxChain + 1

WalkInit ==
  /\ nodes \in UNION {Chains(n) : n \in 1..MaxChain}
  /\ graphs = NoNodes
  /\ current_scope = NoNodes
  /\ stack = <<>>
  /\ pc = "start"
  /\ top_guard = <<>>
  /\ nextId = 0
  /\ hist = [op |-> "Init", result |-> ""]

\* lines 37-45: the resolver returns without looking at a container
ResolveWithoutWalk ==
  /\ pc = "start"
  /\ \/ nodes[1].name = <<>> /\ hist' = [op |-> "ResolveWithoutWalk", result |-> ""]
     \/ /\ nodes[1].name # <<>> /\ Len(nodes[1].inputs) = 0
        /\ hist' = [op |-> "ResolveWithoutWalk", result |-> nodes[1].name[1]]
  /\ pc' = "returned"
  /\ UNCHANGED <<nodes, graphs, current_scope, stack, top_guard, nextId>>

\* lines 37-48: the loop is entered
EnterWalk ==
  /\ pc = "start"
  /\ nodes[1].name # <<>> /\ Len(nodes[1].inputs) > 0
  /\ stack' = <<[parent_module_value |-> <<nodes[1].inputs[1]>>,
                 module_name |-> nodes[1].name[1], read |-> <<>>]>>
  /\ pc' = "walk"
  /\ hist' = [op |-> "EnterWalk", result |-> ""]
  /\ UNCHANGED <<nodes, graphs, current_scope, top_guard, nextId>>

InContainer ==
  /\ pc = "walk"
  /\ stack[1].parent_module_value # <<>>
  /\ IsModuleList(nodes, stack[1].parent_module_value[1])

\* lines 49-57: one iteration on a container
WalkStep ==
  /\ InContainer
  /\ Len(stack[1].read) < WalkCap
  /\ \E parent_module_node \in {stack[1].parent_module_value[1][1]} :
       /\ nodes[parent_module_node].name # <<>>
       /\ stack' = <<[parent_module_value |->
                        IF Len(nodes[parent_module_node].inputs) > 0
                        THEN <<nodes[parent_module_node].inputs[1]>> ELSE <<>>,
                      module_name |-> nodes[parent_module_node].name[1] \o "."
                                      \o stack[1].module_name,
                      read |-> Append(stack[1].read, parent_module_node)]>>
  /\ hist' = [op |-> "WalkStep", result |-> ""]
  /\ UNCHANGED <<nodes, graphs, current_scope, pc, top_guard, nextId>>

\* line 55: the container's producer has no name, Node::s throws
WalkThrow ==
  /\ InContainer
  /\ nodes[stack[1].parent_module_value[1][1]].name = <<>>
  /\ pc' = "threw"
  /\ hist' = [op |-> "WalkThrow", result |-> ""]
  /\ UNCHANGED <<nodes, graphs, current_scope, stack, top_guard, nextId>>

\* lines 58-60 and 64: the value is no container
WalkBreak ==
  /\ pc = "walk"
  /\ stack[1].parent_module_value # <<>>
  /\ ~IsModuleList(nodes, stack[1].parent_module_value[1])
  /\ pc' = "returned"
  /\ hist' = [op |-> "WalkBreak", result |-> stack[1].module_name]
  /\ UNCHANGED <<nodes, graphs, current_scope, stack, top_guard, nextId>>

\* lines 49 and 64: parent_module_value is nullptr
WalkEnd ==
  /\ pc = "walk"
  /\ stack[1].parent_module_value = <<>>
  /\ pc' = "returned"
  /\ hist' = [op |-> "WalkEnd", result |-> stack[1].module_name]
  /\ UNCHANGED <<nodes, graphs, current_scope, stack, top_guard, nextId>>

WalkNext ==
  \/ ResolveWithoutWalk
  \/ EnterWalk
  \/ WalkStep
  \/ WalkThrow
  \/ WalkBreak
  \/ WalkEnd

WalkSpec == WalkInit /\ [][WalkNext]_vars

(***************************************************************************)
(* Properties.  Each reads the step just taken from hist: hist.fr is the   *)
(* activation that took it (hist.fr.cur the node handled), hist.nodes,     *)
(* hist.graphs and hist.scope the state it started in.                     *)
(***************************************************************************)
Before == [nodes |-> hist.nodes, graphs |-> hist.graphs, log |-> <<>>]

\* the block of the handled node before and after the step
BlockBefore == BlockNodes(Before, hist.fr.blk)
BlockNow == BlockNodes(Store, hist.fr.blk)

\* the nodes the step created
Created == DOMAIN nodes \ DOMAIN hist.nodes

\* the inputs (m, i) that were output j of node cur before the step
WasUseOf(cur, m, i) ==
  /\ m \in DOMAIN hist.nodes
  /\ i \in DOMAIN hist.nodes[m].inputs
  /\ hist.nodes[m].inputs[i][1] = cur

\* An interpolate call of an arity in ks, once handled, is replaced by one
\* new aten::__interpolate node in its place, with the call's inputs but
\* input 0 and as many outputs; the uses of output i are uses of the new
\* node's output i; the call is gone.
InterpolateSubstituted(ks) ==
  (hist.op = "VisitCallFunctionInterpolate" /\
   Len(hist.nodes[hist.fr.cur].otypes) \in ks) =>
    LET cur == hist.fr.cur
        made == {n \in Created : nodes[n].kind = "aten::__interpolate"}
        kept == SelectSeq(BlockBefore, LAMBDA x : x = cur \/ x \in DOMAIN nodes)
    IN /\ Cardinality(made) = 1
       /\ \A n \in made :
            /\ nodes[n].inputs = Tail(hist.nodes[cur].inputs)
            /\ Len(nodes[n].otypes) = Len(hist.nodes[cur].otypes)
            /\ BlockNow = [i \in DOMAIN kept |-> IF kept[i] = cur THEN n ELSE kept[i]]
            /\ \A m \in DOMAIN nodes \ {n} : \A i \in DOMAIN nodes[m].inputs :
                 WasUseOf(cur, m, i) =>
                   nodes[m].inputs[i] = <<n, hist.nodes[m].inputs[i][2]>>
       /\ cur \notin DOMAIN nodes
       /\ \A i \in DOMAIN BlockNow : BlockNow[i] # cur

\* C1: every prim::CallFunction node whose callee's qualified name contains
\* "torch.nn.functional" and "interpolate" is, for every output arity k,
\* replaced by exactly one new aten::__interpolate node at its position,
\* with the call's inputs without input 0 and k outputs; the uses of its
\* outputs are redirected and the call is no longer in the block.
C1_InterpolateEveryArity == InterpolateSubstituted(Nat)

\* the same for calls with exactly one output, the arity line 106 accepts
InterpolateSingleOutput == InterpolateSubstituted({1})

\* C2: after a non-interpolate function call or a method call with a class
\* receiver and a method body is processed, every use of each of its k
\* outputs is a use of the corresponding returned value of the inlined
\* body, and the call node is no longer in its block.
C2_InlinedOutputs ==
  hist.op \in {"ReturnFromFunction", "ReturnFromMethod"} =>
    LET cur == hist.fr.cur
        pre == hist.nodes
        cg == hist.graphs[hist.fr.callee]
        rets == pre[cg.ret].inputs
        path == pre[cur].via \o <<pre[cur].orig>>
        \* v is what the body's j-th returned value became at the call site
        IsReturned(v, j) ==
          IF rets[j][1] = cg.param THEN v = pre[cur].inputs[rets[j][2]]
          ELSE /\ v[1] \in Created
               /\ v[2] = rets[j][2]
               /\ nodes[v[1]].orig = pre[rets[j][1]].orig
               /\ nodes[v[1]].via = path \o pre[rets[j][1]].via
               /\ \E i \in DOMAIN BlockNow : BlockNow[i] = v[1]
    IN /\ Len(rets) = Len(pre[cur].otypes)
       /\ \A m \in DOMAIN nodes : \A i \in DOMAIN nodes[m].inputs :
            WasUseOf(cur, m, i) => IsReturned(nodes[m].inputs[i], pre[m].inputs[i][2])
       /\ ~HasUses(nodes, cur)
       /\ cur \notin DOMAIN nodes
       /\ \A i \in DOMAIN BlockNow : BlockNow[i] # cur

\* a function call with two outputs, both used, has been inlined
C2_Witness ==
  /\ hist.op = "ReturnFromFunction"
  /\ Len(hist.nodes[hist.fr.cur].otypes) = 2
  /\ \E m \in DOMAIN nodes : \E i \in DOMAIN nodes[m].inputs :
       /\ WasUseOf(hist.fr.cur, m, i)
       /\ hist.nodes[m].inputs[i][2] = 2

\* C4: a node is destroyed only when none of its outputs has a use at that
\* moment (the function constant of input 0, also when it feeds several
\* call sites, and the replaced call node), so that no input of a
\* remaining node is produced by a destroyed node.
C4_DestroyedUnused ==
  /\ \A i \in DOMAIN hist.log : ~hist.log[i].used
  /\ \A m \in DOMAIN nodes : \A i \in DOMAIN nodes[m].inputs :
       nodes[m].inputs[i][1] \in DOMAIN nodes

\* an interpolate call was replaced and destroyed while the constant that
\* fed it lives on, because it feeds another call site
C4_Witness ==
  /\ hist.op = "VisitCallFunctionInterpolate"
  /\ ~hist.threw
  /\ Len(hist.log) = 1
  /\ hist.log[1].id = hist.fr.cur
  /\ hist.nodes[hist.fr.cur].inputs[1][1] \in DOMAIN nodes
  /\ HasUses(nodes, hist.nodes[hist.fr.cur].inputs[1][1])

\* the nodes now in the target graph, nested blocks included
InMain == {Flatten(nodes, graphs[<<"main">>].body)[i] :
             i \in 1..Len(Flatten(nodes, graphs[<<"main">>].body))}

\* the name of the node that produced the receiver of call c of the
\* program as it was before the pass
ReceiverName(c) == hist.src.nodes[hist.src.nodes[c].inputs[1][1]].name[1]

\* the class of the receiver of call c of the program before the pass
ReceiverClass(c) ==
  hist.src.nodes[hist.src.nodes[c].inputs[1][1]].otypes[1].id[1]

\* node n came into the target graph through a method call on an
\* attribute of class A in the target graph and, inside A's body, a
\* method call on an attribute of class B
IsThroughAThenB(n) ==
  /\ n \in InMain
  /\ Len(nodes[n].via) = 2
  /\ hist.src.nodes[nodes[n].via[1]].kind = "prim::CallMethod"
  /\ hist.src.nodes[nodes[n].via[2]].kind = "prim::CallMethod"
  /\ ReceiverClass(nodes[n].via[1]) = "A"
  /\ ReceiverClass(nodes[n].via[2]) = "B"
  /\ hist.src.nodes[hist.src.nodes[nodes[n].via[2]].inputs[1][1]].inputs
       = << <<101, 1>> >>

\* the path root frame, frame of (A, x), frame of (B, y) for such a node
NestedPath(n) ==
  hist.ambient \o
  <<"Top::", "pkg.A::" \o ReceiverName(nodes[n].via[1]),
    "pkg.B::" \o ReceiverName(nodes[n].via[2])>>

\* C3: when the target graph (root frame R) calls a method of A on x and
\* A's body calls a method of B on y, then after the pass every node of
\* B's inlined body carries the scope path R, frame (A, x), frame (B, y).
C3_NestedScopePath ==
  pc = "done" => \A n \in DOMAIN nodes : IsThroughAThenB(n) => nodes[n].scope = NestedPath(n)

\* the same while A's body has been expanded at one call site only
NestedScopePathFirstExpansion ==
  (pc = "done" /\ Cardinality({nodes[n].via[1] : n \in {m \in DOMAIN nodes : IsThroughAThenB(m)}}) = 1)
    => \A n \in DOMAIN nodes : IsThroughAThenB(n) => nodes[n].scope = NestedPath(n)

\* the handling of a method call has ended: its body was inlined, it had
\* no body, or an exception passed through it
MethodCallHandled ==
  \/ hist.op \in {"ReturnFromMethod", "VisitCallMethodOpaque"}
  \/ hist.op = "Unwind" /\ hist.fr.ph = "meth"

\* C5: every scope push is matched by one pop: when the handling of a
\* method call has ended (inlined, no body, or an assertion raised while
\* its callee was processed) the current scope of every graph, the
\* caller's and the callee's among them, is what it was before the call
\* was handled, at every depth; when ONNXFunctionCallSubstitution has
\* returned or thrown the target graph's scope is what it was before.
C5_ScopePushPopMatched ==
  /\ MethodCallHandled => \A g \in DOMAIN current_scope : current_scope[g] = hist.fr.pre[g]
  /\ pc \in {"done", "aborted"} => current_scope[<<"main">>] = hist.ambient

\* an exception raised in the callee's body leaves a method call both of
\* whose guards had changed a scope
C5_Witness ==
  /\ hist.op = "Unwind"
  /\ hist.fr.ph = "meth"
  /\ hist.scope[hist.fr.g] # current_scope[hist.fr.g]
  /\ hist.scope[hist.fr.callee] # current_scope[hist.fr.callee]
  /\ current_scope[hist.fr.g] # <<>>

\* a method call of the program the pass must not touch: its receiver is
\* no class, or its class has no graph for the method
IsUntouchable(ns, n) ==
  /\ ns[n].kind = "prim::CallMethod"
  /\ \/ ValueType(ns, ns[n].inputs[1]).tag # "Class"
     \/ MethodGraph(ValueType(ns, ns[n].inputs[1]).id[1], ns[n].name[1]) = <<>>

\* C6: a method call whose receiver is not of class type, or whose method
\* has no graph, is left untouched: the step that handles it changes no
\* node, no block and no graph's current scope, and at any time the node
\* is in the graph it was in, with the outputs and the scope annotation it
\* had before the pass.
C6_UntouchedMethodCall ==
  /\ hist.op \in {"VisitCallMethodNonClass", "VisitCallMethodOpaque"} =>
       /\ IsUntouchable(hist.nodes, hist.fr.cur)
       /\ nodes = hist.nodes
       /\ graphs = hist.graphs
       /\ current_scope = hist.scope
       /\ hist.log = <<>>
  /\ \A n \in DOMAIN hist.src.nodes :
       IsUntouchable(hist.src.nodes, n) =>
         /\ n \in DOMAIN nodes
         /\ nodes[n].kind = "prim::CallMethod"
         /\ nodes[n].otypes = hist.src.nodes[n].otypes
         /\ nodes[n].scope = hist.src.nodes[n].scope
         /\ nodes[n].name = hist.src.nodes[n].name
         /\ \A g \in DOMAIN graphs :
              (\E i \in 1..Len(Flatten(hist.src.nodes, hist.src.graphs[g].body)) :
                 Flatten(hist.src.nodes, hist.src.graphs[g].body)[i] = n)
              => \E i \in 1..Len(Flatten(nodes, graphs[g].body)) :
                   Flatten(nodes, graphs[g].body)[i] = n

\* a method call without a graph was handled while the graph's current
\* scope was not blank, and the pass went on to its end
C6_Witness ==
  /\ pc = "done"
  /\ \E n \in DOMAIN hist.src.nodes :
       /\ IsUntouchable(hist.src.nodes, n)
       /\ ValueType(hist.src.nodes, hist.src.nodes[n].inputs[1]).tag = "Class"
       /\ n \in InMain
       /\ \E m \in InMain : nodes[m].scope = hist.ambient \o <<"Top::">>

IsCall(n) == nodes[n].kind \in {"prim::CallFunction", "prim::CallMethod"}

\* the scope the caller's graph had when the handling of the call began
CallerScope == hist.fr.pre[hist.fr.g]

\* the body of a function callee is being processed under the scope the
\* caller's graph has
FunctionBodyUnderCallerScope ==
  (pc = "run" /\ Len(stack) > 1 /\ Caller.ph = "fn") =>
    current_scope[Fr.g] = current_scope[Caller.g]

\* the body of a method callee is being processed under the scope the
\* caller's graph has, which is the caller's scope with the call's frame
MethodBodyUnderCallScope ==
  (pc = "run" /\ Len(stack) > 1 /\ Caller.ph = "meth") =>
    /\ current_scope[Fr.g] = current_scope[Caller.g]
    /\ Len(current_scope[Caller.g]) = Len(Caller.pre[Caller.g]) + 1
    /\ SubSeq(current_scope[Caller.g], 1, Len(Caller.pre[Caller.g]))
         = Caller.pre[Caller.g]

\* a node the splice brought in that is no call; the node an interpolate
\* call in the body was replaced by is left out, it has the annotation of
\* that call (line 109)
IsSpliced(n) ==
  n \in Created /\ ~IsCall(n) /\ nodes[n].kind # "aten::__interpolate"

\* the nodes spliced in by the expansion of a function call under a scope
\* S that is not blank carry S
FunctionSpliceStamped ==
  (hist.op = "ReturnFromFunction" /\ ~IsBlank(CallerScope)) =>
    \A n \in DOMAIN nodes : IsSpliced(n) => nodes[n].scope = CallerScope

\* the nodes spliced in by the expansion of a method call carry S with the
\* call's frame
MethodSpliceStamped ==
  hist.op = "ReturnFromMethod" =>
    \A n \in DOMAIN nodes : IsSpliced(n) =>
      /\ Len(nodes[n].scope) > Len(CallerScope)
      /\ SubSeq(nodes[n].scope, 1, Len(CallerScope) + 1) = hist.scope[hist.fr.g]

\* C7: when a function call or a method call is expanded while the
\* caller graph's scope is S, the callee's body is processed under that
\* scope: every non-call node of the body spliced at the call site is
\* stamped with S (function call) or with S and the call's frame (method
\* call), never with an unrelated scope.
C7_CalleeBodyUnderCallerScope ==
  /\ FunctionBodyUnderCallerScope
  /\ MethodBodyUnderCallScope
  /\ FunctionSpliceStamped
  /\ MethodSpliceStamped

\* the part of it about method calls
MethodCalleeUnderCallScope == MethodBodyUnderCallScope /\ MethodSpliceStamped

\* the label of the root frame for the class of the first graph input:
\* the tidied class name, "::" and the empty variable name
RootLabel(c) ==
  CASE c = "Top" -> "Top::"
    [] c = "Net" -> "pkg.Net::"

\* C8: the top-level scope setup pushes a root frame if and only if the
\* graph has at least one input and the first input is of class type; the
\* frame's label is createFullScopeName(tidied class name, ""); with no
\* input or a first input of another type nothing is pushed and the pass
\* runs under the scope the graph already had.
C8_TopLevelRootFrame ==
  hist.op = "ONNXFunctionCallSubstitution" =>
    LET inputs == nodes[graphs[<<"main">>].param].otypes
        pushes == Len(inputs) > 0 /\ inputs[1].tag = "Class"
    IN /\ pushes =>
            /\ current_scope[<<"main">>]
                 = hist.scope[<<"main">>] \o <<RootLabel(inputs[1].id[1])>>
            /\ RootLabel(inputs[1].id[1])
                 = createFullScopeName(
                     TidyClassNameFromTorchScript(ClassName(inputs[1].id[1])), "")
       /\ ~pushes => current_scope[<<"main">>] = hist.scope[<<"main">>]
       /\ \A g \in DOMAIN current_scope \ {<<"main">>} :
            current_scope[g] = hist.scope[g]
       /\ top_guard.prev_scope = hist.scope[<<"main">>]

\* a root frame was pushed on a scope that was not blank, for a class
\* whose name has a mangle atom
C8_Witness ==
  /\ hist.op = "ONNXFunctionCallSubstitution"
  /\ hist.scope[<<"main">>] = <<"outer">>
  /\ current_scope[<<"main">>] = <<"outer", "pkg.Net::">>

RECURSIVE ContainerNames(_, _)
\* the names of the consecutive container producers from value v on,
\* following first inputs, the outermost container first
ContainerNames(ns, v) ==
  IF IsModuleList(ns, v)
  THEN (IF Len(ns[v[1]].inputs) > 0
        THEN ContainerNames(ns, ns[v[1]].inputs[1]) ELSE <<>>)
       \o <<ns[v[1]].name[1]>>
  ELSE <<>>

\* the step took the call's frame
TookCallFrame == hist.op \in {"VisitCallMethodInline", "VisitCallMethodOpaque"}

\* the node that produced the receiver of the call just handled
Producer == hist.nodes[hist.nodes[hist.fr.cur].inputs[1][1]]

\* the frame the handling of the call pushed: the last frame of the
\* scope the call's guard made current
PushedLabel ==
  LET s == IF hist.op = "VisitCallMethodInline" THEN current_scope[hist.fr.g]
           ELSE CallScope(hist.nodes, hist.scope, hist.fr.g, hist.fr.cur)
  IN s[Len(s)]

\* the tidied class name of the receiver of the call just handled
ReceiverLabel ==
  TidyClassNameFromTorchScript(
    ClassName(ValueType(hist.nodes, hist.nodes[hist.fr.cur].inputs[1]).id[1]))

\* C9: for a call whose receiver's producer has a name and an input, the
\* variable name is the names of the consecutive ModuleList producers
\* reached by following first inputs, outermost first, then the
\* producer's own name, joined by "."; the walk stops at the first value
\* that is no container: container "layers" and element "3" give
\* "layers.3".
C9_ContainerVariableName ==
  (hist.op = "VisitCallMethodInline" /\ Producer.name # <<>> /\
   Len(Producer.inputs) > 0) =>
    PushedLabel = ReceiverLabel \o "::" \o
                  JoinDots(ContainerNames(hist.nodes, Producer.inputs[1])
                           \o Producer.name)

\* the call on element "3" of the container "layers" got "layers.3"
C9_Witness ==
  /\ hist.op = "VisitCallMethodInline"
  /\ Producer.name = <<"3">>
  /\ PushedLabel = "pkg.B::layers.3"

\* two nested containers give "layers.0.3"
NestedContainerName ==
  /\ hist.op = "VisitCallMethodInline"
  /\ PushedLabel = "pkg.B::layers.0.3"

\* the walk stopped at the object between the container and the element
WalkStopsAtNonContainer ==
  /\ hist.op = "VisitCallMethodInline"
  /\ Len(Producer.inputs) > 0
  /\ hist.nodes[Producer.inputs[1][1]].name = <<"mid">>
  /\ PushedLabel = "pkg.B::3"

\* C10: a missing "name" attribute met during variable resolution is
\* never an error: when the producer of the call's input 0 has none the
\* variable name is "", and a producer met later in the container walk
\* that has none (a graph input of container type) does not abort the
\* pass; a scope name is still made.
C10_MissingNameNeverAnError ==
  /\ hist.op # "VisitCallMethodThrow"
  /\ (TookCallFrame /\ Producer.name = <<>>) => PushedLabel = ReceiverLabel \o "::"

\* the part of it about the producer of input 0
MissingReceiverNameGivesEmpty ==
  (TookCallFrame /\ Producer.name = <<>>) => PushedLabel = ReceiverLabel \o "::"

\* the part of it about a graph input of container type
ContainerGraphInputDoesNotAbort ==
  ~(/\ hist.op = "VisitCallMethodThrow"
    /\ Len(Producer.inputs) > 0
    /\ hist.nodes[Producer.inputs[1][1]].kind = "prim::Param")

\* whether the tidying keeps an atom
IsKeptAtom(atom) == atom # "__torch__" /\ ~Contains(atom, "__torch_mangle")

\* C11: TidyClassNameFromTorchScript returns "UNKNOWN_CLASS" for an absent
\* name; for a present name it returns the atoms that are neither
\* "__torch__" nor contain "__torch_mangle", in their order, joined by "."
\* (all atoms when none is such, "" when all are).
C11_TidyClassName ==
  pc = "done" =>
    hist.out = IF hist.class_name = <<>> THEN "UNKNOWN_CLASS"
               ELSE JoinDots(SelectSeq(hist.class_name[1], IsKeptAtom))

\* a name with a mangle atom between two kept atoms was tidied
C11_Witness ==
  /\ pc = "done"
  /\ hist.class_name = << <<"__torch__", "pkg", "___torch_mangle_3", "M">> >>
  /\ hist.out = "pkg.M"

\* an absent name, a name without atoms to drop, a name of such atoms only
TidyEdgeCases ==
  pc = "done" =>
    /\ hist.class_name = <<>> => hist.out = "UNKNOWN_CLASS"
    /\ hist.class_name = << <<"pkg", "M">> >> => hist.out = "pkg.M"
    /\ hist.class_name = << <<"__torch__", "___torch_mangle_3">> >> => hist.out = ""

\* the name and its variant with the marker inside the last atom
PlainName == << <<"__torch__", "pkg", "M">> >>
EmbeddedMarkerName == << <<"__torch__", "pkg", "M__torch_mangle_3">> >>
\* the variant with the marker in an atom of its own
MangleAtomName == << <<"__torch__", "pkg", "___torch_mangle_3", "M">> >>

\* C12 as stated: a name and its variant with the marker inside the last
\* atom ("M__torch_mangle_3") both tidy to "pkg.M".
C12_EmbeddedMarkerSameLabel ==
  (pc = "done" /\ hist.class_name \in {PlainName, EmbeddedMarkerName}) =>
    hist.out = "pkg.M"

\* C12 amended: a name and its variant with the marker in an atom of its
\* own both tidy to "pkg.M"; an atom that embeds the marker is dropped
\* whole, so the variant with "M__torch_mangle_3" tidies to "pkg".
C12_MangleAtomSameLabel ==
  pc = "done" =>
    /\ hist.class_name \in {PlainName, MangleAtomName} => hist.out = "pkg.M"
    /\ hist.class_name = EmbeddedMarkerName => hist.out = "pkg"

\* the variant with the marker inside the last atom was tidied
C12_Witness ==
  /\ pc = "done"
  /\ hist.class_name = EmbeddedMarkerName
  /\ hist.out = "pkg"

\* the graph a call node of the program expands to, <<>> when it is not
\* expanded (an interpolate call, a malformed call, no class, no graph)
Expansion(ns, n) ==
  IF ns[n].kind = "prim::CallFunction"
  THEN IF IsFunctionConstant(ns, ns[n].inputs[1]) /\
          ~IsInterpolate(FunctionQualName(Callee(ns, n)))
       THEN <<FunctionGraph(Callee(ns, n))>> ELSE <<>>
  ELSE IF ns[n].kind = "prim::CallMethod" /\ ReceiverIsClass(ns, n)
       THEN ReceiverMethod(ns, n)
       ELSE <<>>

Max(a, b) == IF a >= b THEN a ELSE b

RECURSIVE Nesting(_, _, _)
RECURSIVE BlocksNesting(_, _, _)
\* the deepest nesting of expanded calls and of blocks under the nodes seq
\* of the program ns, gs
Nesting(ns, gs, seq) ==
  IF seq = <<>> THEN 0
  ELSE LET n == Head(seq)
           here == IF Expansion(ns, n) # <<>>
                   THEN 1 + Nesting(ns, gs, gs[Expansion(ns, n)[1]].body)
                   ELSE IF ns[n].blocks # <<>>
                   THEN 1 + BlocksNesting(ns, gs, ns[n].blocks)
                   ELSE 0
       IN Max(here, Nesting(ns, gs, Tail(seq)))

BlocksNesting(ns, gs, blocks) ==
  IF blocks = <<>> THEN 0
  ELSE Max(Nesting(ns, gs, Head(blocks)), BlocksNesting(ns, gs, Tail(blocks)))

\* the nesting depth of the program the pass was started on
ProgramNesting ==
  Nesting(hist.src.nodes, hist.src.graphs, hist.src.graphs[<<"main">>].body)

\* the pass has returned or has thrown
Terminated == pc \in {"done", "aborted"}

\* the activations of functionCallSubstitution under the outermost one
RecursionDepth == IF stack = <<>> THEN 0 ELSE Len(stack) - 1

RECURSIVE Cost(_, _, _)
RECURSIVE BlocksCost(_, _, _)
\* twice the steps the dispatch of the nodes seq takes at most, in the
\* program ns, gs: two steps for an expanded call and the steps of its
\* body, one step for another call, for another node one step and, for
\* each of its blocks, the steps of the block and the return from it
Cost(ns, gs, seq) ==
  IF seq = <<>> THEN 0
  ELSE LET n == Head(seq)
           here == IF Expansion(ns, n) # <<>>
                   THEN 4 + Cost(ns, gs, gs[Expansion(ns, n)[1]].body)
                   ELSE IF ns[n].kind \in {"prim::CallFunction", "prim::CallMethod"}
                   THEN 2
                   ELSE 2 + BlocksCost(ns, gs, ns[n].blocks)
       IN here + Cost(ns, gs, Tail(seq))

BlocksCost(ns, gs, blocks) ==
  IF blocks = <<>> THEN 0
  ELSE 2 + Cost(ns, gs, Head(blocks)) + BlocksCost(ns, gs, Tail(blocks))

\* the nodes of activation f's block from its iterator on
Rest(f) ==
  IF f.it = 0 THEN <<>>
  ELSE SubSeq(BlockNodes(Store, f.blk), Index(BlockNodes(Store, f.blk), f.it),
              Len(BlockNodes(Store, f.blk)))

\* what is left to do in activation f
FrameCost(f) ==
  Cost(nodes, graphs, Rest(f)) +
  (CASE f.ph = "loop" -> 0
     [] f.ph \in {"fn", "meth"} -> 2
     [] f.ph = "blocks" ->
          2 + BlocksCost(nodes, graphs,
                         SubSeq(nodes[f.cur].blocks, f.bi + 1,
                                Len(nodes[f.cur].blocks))))

RECURSIVE StackCost(_)
StackCost(frames) ==
  IF frames = <<>> THEN 0 ELSE FrameCost(Head(frames)) + StackCost(Tail(frames))

\* a measure of what is left of the pass: a natural number
Rank ==
  CASE pc = "start" -> 4 + Cost(nodes, graphs, graphs[<<"main">>].body)
    [] pc = "run" -> 2 + StackCost(stack)
    [] pc = "throwing" -> 1 + Len(stack)
    [] pc \in {"done", "aborted"} -> 0

\* Rank is a natural number, 0 only when the pass has returned or thrown,
\* and the recursion is no deeper than the nesting of the program
RankAndDepthBounded ==
  /\ Rank \in Nat
  /\ Rank = 0 <=> Terminated
  /\ RecursionDepth <= ProgramNesting

\* C13: on a finite program with an acyclic call graph the pass
\* terminates (every step makes the natural number Rank smaller, and Rank
\* is 0 only when the pass has returned or thrown), and its recursion is
\* never deeper than the nesting of calls and of blocks in the program.
C13_TerminatesWithinNesting ==
  /\ [][Rank' < Rank]_vars
  /\ []RankAndDepthBounded

\* as long as the pass has neither returned nor thrown it has a next step
NeverStuck == Terminated \/ ENABLED Next

\* the recursion is as deep as the nesting: inside the body of B, called
\* in the body of A, called in the target graph
C13_Witness ==
  /\ RecursionDepth = 2
  /\ ProgramNesting = 2
  /\ Fr.g = <<"B">>
  /\ hist.op = "VisitDefault"

\* a block in a callee's body: a call, then a block
CallThenBlockDepth ==
  /\ RecursionDepth = 2
  /\ Fr.g = <<"A">>
  /\ Fr.blk # GraphBlock(<<"A">>)

\* the loop has read the name of the same producer twice
ReadsTwice ==
  /\ pc = "walk"
  /\ \E i, j \in DOMAIN stack[1].read : i # j /\ stack[1].read[i] = stack[1].read[j]

\* C14: the container walk terminates on every producer chain, a cyclic
\* chain of container values each of whose producers has an input
\* included; it never loops forever.  What the loop does next depends on
\* parent_module_value alone, so a walk that comes to the same producer a
\* second time loops forever: the walk never reads a producer twice.
C14_ContainerWalkTerminates == ~ReadsTwice

\* on a chain that does not lead back into itself the walk ends, with the
\* name GetCallNodeVariableName gives or with the exception of line 55
WalkOfAcyclicChainEnds ==
  /\ pc = "returned" =>
       /\ GetCallNodeVariableName(nodes, 0).ok
       /\ GetCallNodeVariableName(nodes, 0).val = hist.result
  /\ pc = "threw" => ~GetCallNodeVariableName(nodes, 0).ok

\* a walk through two containers has returned
WalkReturned ==
  /\ pc = "returned"
  /\ hist.result = "m.m.m"

(***************************************************************************)
(* The default case (C15).                                                 *)
(***************************************************************************)
\* the default case has just handled hist.fr.cur
DefaultVisited == hist.op = "VisitDefault"

\* the step stamped the graph's scope if it is not blank, else left the
\* annotation alone
DefaultStamped ==
  DefaultVisited =>
    nodes[hist.fr.cur].scope =
      IF IsBlank(hist.scope[hist.fr.g]) THEN hist.nodes[hist.fr.cur].scope
      ELSE hist.scope[hist.fr.g]

\* the activation on top runs on block bi of node cur, from its first node,
\* called from the loop over cur's blocks
InBlockOf(g, cur, bi) ==
  /\ Len(stack) >= 2
  /\ Caller.ph = "blocks" /\ Caller.cur = cur /\ Caller.bi = bi
  /\ Fr.g = g /\ Fr.blk = NodeBlock(g, cur, bi) /\ Fr.ph = "loop"
  /\ Fr.it = (IF BlockNodes(Store, Fr.blk) = <<>> THEN 0
              ELSE BlockNodes(Store, Fr.blk)[1])

\* the blocks of a node are entered one after the other, from the first to
\* the last, and only then the loop over the node's block goes on
DefaultBlocksTraversed ==
  /\ DefaultVisited =>
       IF hist.nodes[hist.fr.cur].blocks = <<>>
       THEN Fr.ph = "loop" /\ Fr.cur = hist.fr.cur
       ELSE InBlockOf(hist.fr.g, hist.fr.cur, 1)
  /\ hist.op = "ReturnFromBlock" =>
       IF hist.fr.bi < Len(nodes[hist.fr.cur].blocks)
       THEN InBlockOf(hist.fr.g, hist.fr.cur, hist.fr.bi + 1)
       ELSE Fr.ph = "loop" /\ Fr.cur = hist.fr.cur /\ Fr.blk = hist.fr.blk

\* C15: a node that is neither a function call nor a method call, visited
\* at any block depth, takes the ambient scope if that is not blank
\* (whatever annotation it had) and keeps its annotation if it is blank;
\* either way each of its blocks is traversed.
C15_DefaultStampsAndDescends ==
  /\ DefaultStamped
  /\ DefaultBlocksTraversed

\* an annotated node with blocks, in a nested block or not, is stamped over
C15_Witness ==
  /\ DefaultVisited
  /\ ~IsBlank(hist.scope[hist.fr.g])
  /\ ~IsBlank(hist.nodes[hist.fr.cur].scope)
  /\ hist.nodes[hist.fr.cur].scope # hist.scope[hist.fr.g]
  /\ Len(hist.nodes[hist.fr.cur].blocks) = 2

\* under a blank scope an annotated node keeps its annotation
DefaultUnderBlankScope ==
  /\ DefaultVisited
  /\ IsBlank(hist.scope[hist.fr.g])
  /\ nodes[hist.fr.cur].scope = <<"stale">>

\* a node of a nested block is stamped
DefaultInNestedBlock ==
  /\ DefaultVisited
  /\ Len(stack) >= 2 /\ Caller.ph = "blocks" /\ Caller.bi = 2
  /\ ~IsBlank(hist.scope[hist.fr.g])
  /\ nodes[hist.fr.cur].scope = hist.scope[hist.fr.g]


(***************************************************************************)
(* One block traversal (C16).                                              *)
(***************************************************************************)
Range(seq) == {seq[i] : i \in DOMAIN seq}

\* the nodes made since the pass began
MadeByPass == DOMAIN nodes \ DOMAIN hist.src.nodes

\* the loop of activation f has fetched, in block order and once each, the
\* first nodes the block had when f began, and its iterator stands on the
\* next of them, or at the end when there is none left
InBlockOrder(f) ==
  /\ \A i, j \in DOMAIN f.begun : f.begun[i] = f.begun[j] => i = j
  /\ Len(f.dispatched) <= Len(f.begun)
  /\ f.dispatched = SubSeq(f.begun, 1, Len(f.dispatched))
  /\ f.it = IF Len(f.dispatched) = Len(f.begun) THEN 0
            ELSE f.begun[Len(f.dispatched) + 1]

\* what the step put into the block of the activation it ran in was not
\* fetched by that activation
InsertedNotDispatched ==
  \A k \in DOMAIN stack :
    \A n \in Range(BlockNodes(Store, stack[k].blk)) :
      n \notin Range(stack[k].begun) => n \notin Range(stack[k].dispatched)

\* C16: in one block traversal each node the block had when the traversal
\* began is dispatched once, in block order, also when the node being
\* handled is destroyed; the nodes inserted meanwhile (the
\* aten::__interpolate node, a spliced body) are not dispatched by that loop.
C16_DispatchedOnceInOrder ==
  /\ \A k \in DOMAIN stack : InBlockOrder(stack[k])
  /\ InsertedNotDispatched

\* a traversal at its end whose block lost a node it dispatched and holds
\* a node it never dispatched
C16_Witness ==
  /\ AtEnd
  /\ Len(Fr.begun) >= 3
  /\ Fr.dispatched = Fr.begun
  /\ \E n \in Range(Fr.begun) : n \notin DOMAIN nodes
  /\ \E n \in Range(BlockNodes(Store, Fr.blk)) :
       n \in MadeByPass /\ n \notin Range(Fr.dispatched)

\* the same with a spliced callee body of two nodes
TraversalOverSplice ==
  /\ AtEnd
  /\ Fr.dispatched = Fr.begun
  /\ Cardinality(Range(BlockNodes(Store, Fr.blk)) \cap MadeByPass) >= 2


(***************************************************************************)
(* The scope of the aten::__interpolate node (C17).                        *)
(***************************************************************************)
\* a call has just been replaced by an aten::__interpolate node
Substituted == hist.op = "VisitCallFunctionInterpolate" /\ ~hist.threw

\* the node the step made has the annotation the call had
ReplacementHasCallScope ==
  Substituted =>
    /\ Cardinality(Created) = 1
    /\ \A n \in Created :
         /\ nodes[n].kind = "aten::__interpolate"
         /\ n \in Range(BlockNow)
         /\ nodes[n].scope = hist.nodes[hist.fr.cur].scope

\* the step left the annotation of the aten::__interpolate nodes alone
ReplacementNotStamped ==
  \A n \in DOMAIN nodes \cap DOMAIN hist.nodes :
    hist.nodes[n].kind = "aten::__interpolate" =>
      nodes[n].scope = hist.nodes[n].scope

\* C17: the aten::__interpolate node has the scope annotation the replaced
\* call had when it was substituted, whatever the ambient scope then is,
\* and is not stamped with the ambient scope afterwards.
C17_ReplacementKeepsCallScope ==
  /\ ReplacementHasCallScope
  /\ ReplacementNotStamped

\* a substitution under an ambient scope that differs from the call's
\* annotation
SubstitutedUnderOtherScope ==
  /\ Substituted
  /\ ~IsBlank(hist.scope[hist.fr.g])
  /\ hist.scope[hist.fr.g] # hist.nodes[hist.fr.cur].scope
  /\ \E n \in Created : nodes[n].scope = hist.nodes[hist.fr.cur].scope

\* the traversal that made an aten::__interpolate node does not stamp it:
\* a default step changes the annotation of such a node only in a graph
\* that is a callee's body
ReplacementStampedOnlyInCallee ==
  ReplacementNotStamped \/ (DefaultVisited /\ hist.fr.g # <<"main">>)


(***************************************************************************)
(* What is left of the calls when the pass is done (C18).                  *)
(***************************************************************************)
\* C18: when the pass has completed, no prim::CallFunction node is left in
\* any block of the target graph, the blocks of spliced bodies included,
\* and each prim::CallMethod node left has a receiver that is not of class
\* type or a method without a graph.
C18_NoExpandableCallLeft ==
  pc = "done" =>
    \A n \in InMain :
      /\ nodes[n].kind # "prim::CallFunction"
      /\ nodes[n].kind = "prim::CallMethod" => IsUntouchable(nodes, n)

\* the pass is done on a graph that now holds a spliced node with blocks,
\* a substituted call inside one of them, and a method call it had to leave
C18_Witness ==
  /\ pc = "done"
  /\ \E n \in InMain \cap MadeByPass :
       /\ nodes[n].blocks # <<>>
       /\ \E b \in DOMAIN nodes[n].blocks :
            \E m \in Range(nodes[n].blocks[b]) :
              nodes[m].kind = "aten::__interpolate"
  /\ \E n \in InMain : IsUntouchable(nodes, n)

\* the pass is done on a graph whose method calls nested two deep
NestedCallsExpanded ==
  /\ pc = "done"
  /\ \E n \in InMain : Len(nodes[n].via) = 2


(***************************************************************************)
(* Two expansions of one method body (C19).  What a first expansion gives  *)
(* is read off the first call site of the same run: the two sites differ   *)
(* in the receiver variable only.                                          *)
(***************************************************************************)
\* the place of call c in the body of the target graph before the pass
SiteOrder(c) == Index(hist.src.graphs[<<"main">>].body, c)

\* n1 and n2 are the copies of one node of the body of the nested method
\* call, n1 spliced at the first call site of A and n2 at a later one, on
\* another receiver variable
SameNodeAtTwoSites(n1, n2) ==
  /\ IsThroughAThenB(n1) /\ IsThroughAThenB(n2)
  /\ nodes[n1].orig = nodes[n2].orig
  /\ nodes[n1].via[2] = nodes[n2].via[2]
  /\ SiteOrder(nodes[n1].via[1]) < SiteOrder(nodes[n2].via[1])
  /\ ReceiverName(nodes[n1].via[1]) # ReceiverName(nodes[n2].via[1])

\* the scope path with the frame of call site c1 replaced by that of c2
AtSite(scope, c1, c2) ==
  [i \in DOMAIN scope |->
     IF scope[i] = "pkg.A::" \o ReceiverName(c1)
     THEN "pkg.A::" \o ReceiverName(c2) ELSE scope[i]]

\* C19: when a method body is expanded at two call sites with different
\* receiver variables, the nodes spliced at the second site that come from
\* a method call nested in the body carry what the first expansion gave
\* them with the second site's frame in place of the first's: the second
\* site's frame followed by the nested call's frame.
C19_LabelsIndependentOfEarlierExpansion ==
  pc = "done" =>
    \A n1, n2 \in DOMAIN nodes :
      SameNodeAtTwoSites(n1, n2) =>
        nodes[n2].scope = AtSite(nodes[n1].scope, nodes[n1].via[1], nodes[n2].via[1])

\* the pass is done and a nested call's body was spliced at two sites
ExpandedAtTwoSites ==
  /\ pc = "done"
  /\ \E n1, n2 \in DOMAIN nodes : SameNodeAtTwoSites(n1, n2)

=============================================================================
